---- MODULE Spec2Model ----
(***************************************************************************)
(* ServiceNow incident export -> text blocks (main.py).                    *)
(*                                                                         *)
(* Text is modelled as a sequence of characters.  An ASCII character is    *)
(* the one-character string holding it; a character outside ASCII is the   *)
(* string naming its code point ("U+00E9").  A byte of the input file is   *)
(* the one-character string of the ASCII byte, or "xNN" for the byte with  *)
(* hexadecimal value NN >= 80.  Python's None is the value None for a      *)
(* field of a row and NoneTs for a timestamp.                              *)
(***************************************************************************)
EXTENDS Integers, Sequences, FiniteSets, TLC

\* ------------------------------------------------------------------ values

\* a str value of a row (csv.DictReader gives str, or None for a short row)
Str(s) == [isNone |-> FALSE, s |-> s]
None == [isNone |-> TRUE, s |-> <<>>]
\* an absent datetime (parse_date's None)
NoneTs == <<>>

\* the character at position i of s, "" beyond its ends
At(s, i) == IF i >= 1 /\ i <= Len(s) THEN s[i] ELSE ""

\* str(x) as an f-string renders it
FmtVal(v) == IF v.isNone THEN <<"N", "o", "n", "e">> ELSE v.s

\* ------------------------------------------------------------------ str methods and re.sub

\* the ASCII characters str.strip() and the regex class \s take for whitespace
Whitespace == {" ", "\n", "\t", "\r", "\f"}
IsSpace(c) == c \in Whitespace

Min(S) == CHOOSE x \in S : \A y \in S : x <= y
Max(S) == CHOOSE x \in S : \A y \in S : x >= y

\* str.lstrip() and str.rstrip()
LStrip(s) == SubSeq(s, Min({j \in 1..(Len(s) + 1) : ~IsSpace(At(s, j))}), Len(s))
RStrip(s) == SubSeq(s, 1, Max({j \in 0..Len(s) : j = 0 \/ ~IsSpace(At(s, j))}))

\* str.strip()
Strip(s) == RStrip(LStrip(s))

\* the first position at or after i whose character is not in chars (Len(s) + 1
\* when every one is)
SkipWhile(s, i, chars) == Min({j \in i..(Len(s) + 1) : At(s, j) \notin chars})

\* re.sub(r'\n+', '\n', s): every run of newlines, found left to right from
\* position i, becomes one newline
RECURSIVE CompactNewlinesFrom(_, _)
CompactNewlinesFrom(s, i) ==
    LET starts == {j \in i..Len(s) : s[j] = "\n"}
    IN IF starts = {} THEN SubSeq(s, i, Len(s))
       ELSE SubSeq(s, i, Min(starts) - 1) \o <<"\n">>
            \o CompactNewlinesFrom(s, SkipWhile(s, Min(starts), {"\n"}))
CompactNewlines(s) == CompactNewlinesFrom(s, 1)

\* s holds pat at position i
StartsWithAt(s, i, pat) ==
    /\ i >= 1
    /\ i + Len(pat) - 1 <= Len(s)
    /\ SubSeq(s, i, i + Len(pat) - 1) = pat

\* pat in s
Contains(s, pat) == \E i \in 1..(Len(s) + 1) : StartsWithAt(s, i, pat)

\* str.replace(old, new): the non-overlapping occurrences of old, found left to
\* right from position i, each become new
RECURSIVE ReplaceFrom(_, _, _, _)
ReplaceFrom(s, i, old, new) ==
    LET starts == {j \in i..Len(s) : StartsWithAt(s, j, old)}
    IN IF starts = {} THEN SubSeq(s, i, Len(s))
       ELSE SubSeq(s, i, Min(starts) - 1) \o new
            \o ReplaceFrom(s, Min(starts) + Len(old), old, new)
Replace(s, old, new) == ReplaceFrom(s, 1, old, new)

D09 == {"0", "1", "2", "3", "4", "5", "6", "7", "8", "9"}
D19 == D09 \ {"0"}
IsDigit(c) == c \in D09

EscalatePrefix == <<"E", "s", "c", "a", "l", "a", "t", "e", " ", "i", "n", " ">>
EscalateMiddle == <<" ", "m", "i", "n", "u", "t", "e", "s", " ", "t", "o", " ">>

\* r"Escalate in \d+ minutes to [^\n]+\n" matched at position i: the position
\* after the match, 0 when there is none.  Both repetitions are greedy and what
\* follows each cannot be matched by what it repeats, so nothing is given back.
EscalateMatchEnd(s, i) ==
    IF ~StartsWithAt(s, i, EscalatePrefix) THEN 0
    ELSE LET d0 == i + Len(EscalatePrefix)
             d1 == SkipWhile(s, d0, D09)
             t0 == d1 + Len(EscalateMiddle)
             t1 == Min({j \in t0..(Len(s) + 1) : At(s, j) \in {"\n", ""}})
         IN IF d1 > d0 /\ StartsWithAt(s, d1, EscalateMiddle) /\ t1 > t0 /\ At(s, t1) = "\n"
            THEN t1 + 1
            ELSE 0

\* re.sub(r"Escalate in \d+ minutes to [^\n]+\n", "", s, flags=re.DOTALL): the
\* matches, found left to right from position i, are dropped
RECURSIVE RemoveEscalateFrom(_, _)
RemoveEscalateFrom(s, i) ==
    LET starts == {j \in i..Len(s) : EscalateMatchEnd(s, j) # 0}
    IN IF starts = {} THEN SubSeq(s, i, Len(s))
       ELSE SubSeq(s, i, Min(starts) - 1)
            \o RemoveEscalateFrom(s, EscalateMatchEnd(s, Min(starts)))
RemoveEscalate(s) == RemoveEscalateFrom(s, 1)

WorkNotesTag == <<" ", "(", "W", "o", "r", "k", " ", "n", "o", "t", "e", "s", ")">>
PlanSentence == <<"T", "h", "i", "s", " ", "i", "n", "c", "i", "d", "e", "n", "t", " ", "e", "s", "c", "a", "l", "a", "t", "i", "o", "n", " ", "i", "s", " ", "i", "n", " ", "p", "r", "o", "g", "r", "e", "s", "s", " ", "u", "s", "i", "n", "g", " ", "t", "h", "e", " ", "f", "o", "l", "l", "o", "w", "i", "n", "g", " ", "e", "s", "c", "a", "l", "a", "t", "i", "o", "n", " ", "p", "l", "a", "n", ":">>
PlanMarker == <<"E", "s", "c", "a", "l", "a", "t", "i", "o", "n", " ", "i", "n", " ", "p", "r", "o", "g", "r", "e", "s", "s", ".">>

\* ------------------------------------------------------------------ datetime

DigitChars == <<"0", "1", "2", "3", "4", "5", "6", "7", "8", "9">>
DigitVal(c) == CHOOSE d \in 0..9 : DigitChars[d + 1] = c

\* a timestamp is <<year, month, day, hour, minute, second>>
IsLeap(y) == (y % 4 = 0 /\ y % 100 # 0) \/ y % 400 = 0
DaysInMonth(y, m) ==
    IF m = 2 THEN (IF IsLeap(y) THEN 29 ELSE 28)
    ELSE IF m \in {4, 6, 9, 11} THEN 30 ELSE 31

\* One field of the regex strptime builds from "%Y-%m-%d %H:%M:%S": the
\* alternatives of field k that match at position i, in the regex's order, each
\* <<value, position after it>>.
\*   1 %Y (\d\d\d\d)                          4 %H (2[0-3]|[0-1]\d|\d)
\*   2 %m (1[0-2]|0[1-9]|[1-9])               5 %M ([0-5]\d|\d)
\*   3 %d (3[01]|[12]\d|0[1-9]|[1-9]| [1-9])  6 %S (6[0-1]|[0-5]\d|\d)
Two(s, i, firsts, seconds) ==
    IF At(s, i) \in firsts /\ At(s, i + 1) \in seconds
    THEN << <<10 * DigitVal(s[i]) + DigitVal(s[i + 1]), i + 2>> >>
    ELSE <<>>
One(s, i, chars) ==
    IF At(s, i) \in chars THEN << <<DigitVal(s[i]), i + 1>> >> ELSE <<>>
FieldAlts(k, s, i) ==
    CASE k = 1 -> IF \A j \in i..(i + 3) : IsDigit(At(s, j))
                  THEN << <<1000 * DigitVal(s[i]) + 100 * DigitVal(s[i + 1])
                            + 10 * DigitVal(s[i + 2]) + DigitVal(s[i + 3]), i + 4>> >>
                  ELSE <<>>
      [] k = 2 -> Two(s, i, {"1"}, {"0", "1", "2"}) \o Two(s, i, {"0"}, D19) \o One(s, i, D19)
      [] k = 3 -> Two(s, i, {"3"}, {"0", "1"}) \o Two(s, i, {"1", "2"}, D09)
                  \o Two(s, i, {"0"}, D19) \o One(s, i, D19)
                  \o (IF At(s, i) = " " THEN One(s, i + 1, D19) ELSE <<>>)
      [] k = 4 -> Two(s, i, {"2"}, {"0", "1", "2", "3"}) \o Two(s, i, {"0", "1"}, D09)
                  \o One(s, i, D09)
      [] k = 5 -> Two(s, i, {"0", "1", "2", "3", "4", "5"}, D09) \o One(s, i, D09)
      [] k = 6 -> Two(s, i, {"6"}, {"0", "1"}) \o Two(s, i, {"0", "1", "2", "3", "4", "5"}, D09)
                  \o One(s, i, D09)

\* what the format puts after field k ("-", "-", r"\s+", ":", ":", nothing),
\* matched at position i: the position after it, 0 when it does not match
FieldSep(k, s, i) ==
    CASE k \in {1, 2} -> IF At(s, i) = "-" THEN i + 1 ELSE 0
      [] k = 3 -> IF IsSpace(At(s, i)) THEN SkipWhile(s, i, Whitespace) ELSE 0
      [] k \in {4, 5} -> IF At(s, i) = ":" THEN i + 1 ELSE 0
      [] k = 6 -> i

\* re.match of fields k..6 at position i, backtracking over the alternatives in
\* order: <<value of field k, ..., value of field 6, position after the match>>,
\* or <<>> when nothing matches
RECURSIVE MatchFields(_, _, _), TryAlts(_, _, _, _)
TryAlts(s, k, cands, j) ==
    IF j > Len(cands) THEN <<>>
    ELSE LET after == FieldSep(k, s, cands[j][2])
         IN IF after = 0 THEN TryAlts(s, k, cands, j + 1)
            ELSE IF k = 6 THEN <<cands[j][1], after>>
            ELSE LET rest == MatchFields(s, after, k + 1)
                 IN IF rest = <<>> THEN TryAlts(s, k, cands, j + 1)
                    ELSE <<cands[j][1]>> \o rest
MatchFields(s, i, k) == TryAlts(s, k, FieldAlts(k, s, i), 1)

\* datetime.strptime(s, "%Y-%m-%d %H:%M:%S") of a str s: the timestamp, or
\* NoneTs where strptime raises ValueError (no match, unconverted data left, or
\* a field the datetime constructor refuses)
Strptime(s) ==
    LET m == MatchFields(s, 1, 1)
    IN IF m = <<>> THEN NoneTs
       ELSE IF m[7] # Len(s) + 1 THEN NoneTs
       ELSE IF m[1] < 1 \/ m[3] > DaysInMonth(m[1], m[2]) \/ m[6] > 59 THEN NoneTs
       ELSE SubSeq(m, 1, 6)

\* Record.parse_date(date_str): the exception it lets out ("none" when it
\* returns): strptime raises TypeError on None, which `except ValueError` lets by
ParseDateRaises(v) == IF v.isNone THEN "TypeError" ELSE "none"
\* Record.parse_date(date_str): what it returns when it returns
parse_date(v) == Strptime(v.s)

Pad2(n) == <<DigitChars[(n \div 10) + 1], DigitChars[(n % 10) + 1]>>
Pad4(n) == Pad2(n \div 100) \o Pad2(n % 100)

MonthNames ==
    << <<"J", "a", "n", "u", "a", "r", "y">>, <<"F", "e", "b", "r", "u", "a", "r", "y">>, <<"M", "a", "r", "c", "h">>, <<"A", "p", "r", "i", "l">>, <<"M", "a", "y">>, <<"J", "u", "n", "e">>, <<"J", "u", "l", "y">>,
       <<"A", "u", "g", "u", "s", "t">>, <<"S", "e", "p", "t", "e", "m", "b", "e", "r">>, <<"O", "c", "t", "o", "b", "e", "r">>, <<"N", "o", "v", "e", "m", "b", "e", "r">>, <<"D", "e", "c", "e", "m", "b", "e", "r">> >>

\* t.strftime('%Y-%m-%d_%H-%M-%S'), years of four digits
StrftimeStamp(t) ==
    Pad4(t[1]) \o <<"-">> \o Pad2(t[2]) \o <<"-">> \o Pad2(t[3]) \o <<"_">>
    \o Pad2(t[4]) \o <<"-">> \o Pad2(t[5]) \o <<"-">> \o Pad2(t[6])
\* t.strftime('%B %d, %Y')
StrftimeLong(t) == MonthNames[t[2]] \o <<" ">> \o Pad2(t[3]) \o <<",", " ">> \o Pad4(t[1])
\* t.strftime('%Y-%m-%d')
StrftimeDay(t) == Pad4(t[1]) \o <<"-">> \o Pad2(t[2]) \o <<"-">> \o Pad2(t[3])

\* a < b for two timestamps, as datetime compares them
RECURSIVE TsLessFrom(_, _, _)
TsLessFrom(a, b, i) ==
    IF i > 6 THEN FALSE
    ELSE IF a[i] # b[i] THEN a[i] < b[i]
    ELSE TsLessFrom(a, b, i + 1)
TsLess(a, b) == TsLessFrom(a, b, 1)

\* ------------------------------------------------------------------ Record

\* the columns the CSV header must have
Columns ==
    {"number", "opened_at", "description", "short_description", "caller_id", "category",
     "assignment_group", "assigned_to", "work_notes", "resolved_at", "resolved_by",
     "close_notes"}

\* The lookups of Record.__init__ in the order it makes them, each with what it
\* does to the value: "get" keeps it, "date" hands it to parse_date, "strip"
\* calls .strip() on it.
InitSteps ==
    << <<"number", "get">>, <<"opened_at", "date">>, <<"description", "strip">>,
       <<"short_description", "strip">>, <<"caller_id", "get">>, <<"category", "get">>,
       <<"assignment_group", "get">>, <<"assigned_to", "get">>, <<"work_notes", "strip">>,
       <<"resolved_at", "date">>, <<"resolved_by", "get">>, <<"close_notes", "strip">> >>

\* the exception step k of Record.__init__ raises on row_dict, "none" if none
StepRaises(row_dict, k) ==
    LET key == InitSteps[k][1]
        use == InitSteps[k][2]
    IN IF key \notin DOMAIN row_dict THEN "KeyError"
       ELSE IF use = "date" THEN ParseDateRaises(row_dict[key])
       ELSE IF use = "strip" /\ row_dict[key].isNone THEN "AttributeError"
       ELSE "none"

\* the exception Record(row_dict) raises: that of its first failing step
RECURSIVE RecordRaisesFrom(_, _)
RecordRaisesFrom(row_dict, k) ==
    IF k > Len(InitSteps) THEN "none"
    ELSE IF StepRaises(row_dict, k) # "none" THEN StepRaises(row_dict, k)
    ELSE RecordRaisesFrom(row_dict, k + 1)
RecordRaises(row_dict) == RecordRaisesFrom(row_dict, 1)

\* self.work_notes_compact_cleaned
CleanWorkNotes(work_notes_compact) == RemoveEscalate(work_notes_compact)

\* a variant that takes the tag without the space before it
CleanWorkNotesFurtherNoSpace(work_notes_compact_cleaned) ==
    Replace(Replace(work_notes_compact_cleaned, Tail(WorkNotesTag), <<>>),
            PlanSentence, PlanMarker)

\* self.work_notes_compact_cleaned_further
CleanWorkNotesFurther(work_notes_compact_cleaned) ==
    Replace(Replace(work_notes_compact_cleaned, WorkNotesTag, <<>>), PlanSentence, PlanMarker)

\* Record(row_dict), when it raises nothing
Record(row_dict) ==
    LET description == Strip(row_dict["description"].s)
        work_notes == Strip(row_dict["work_notes"].s)
        close_notes == Strip(row_dict["close_notes"].s)
        work_notes_compact == CompactNewlines(work_notes)
        work_notes_compact_cleaned == CleanWorkNotes(work_notes_compact)
    IN [number |-> row_dict["number"],
        opened_at |-> parse_date(row_dict["opened_at"]),
        description |-> description,
        description_compact |-> CompactNewlines(description),
        short_description |-> Strip(row_dict["short_description"].s),
        caller_id |-> row_dict["caller_id"],
        category |-> row_dict["category"],
        assignment_group |-> row_dict["assignment_group"],
        assigned_to |-> row_dict["assigned_to"],
        work_notes |-> work_notes,
        work_notes_compact |-> work_notes_compact,
        resolved_at |-> parse_date(row_dict["resolved_at"]),
        resolved_by |-> row_dict["resolved_by"],
        close_notes |-> close_notes,
        close_notes_compact |-> CompactNewlines(close_notes),
        work_notes_compact_cleaned |-> work_notes_compact_cleaned,
        work_notes_compact_cleaned_further |->
            CleanWorkNotesFurther(work_notes_compact_cleaned)]

\* the line of dashes that ends a block, with the blank lines around it
Separator ==
    <<"\n", "\n", "\n", "-", "-", "-", "-", "-", "-", "-", "-", "-", "-", "-", "-", "-", "-", "-", "-", "-", "-", "-", "-", "-", "-", "-", "-", "-", "-", "-", "-", "-", "-", "-", "-", "-", "-", "-", "-", "-", "-", "-", "-", "-", "-", "-", "-", "-", "-", "-", "-", "-", "-", "-", "-", "-", "-", "-", "-", "-", "-", "-", "-", "-", "-", "\n", "\n", "\n", "\n">>

\* Record.print_record raises AttributeError when opened_at is None
PrintRecordRaises(r) == IF r.opened_at = NoneTs THEN "AttributeError" ELSE "none"

\* a variant whose block ends after the last section, with no separator
print_record_unterminated(r, print_work_notes) ==
    FmtVal(r.number) \o <<" ", "|", " ">> \o StrftimeLong(r.opened_at) \o <<"\n">>
    \o <<"S", "u", "b", "m", "i", "t", "t", "e", "d", " ", "b", "y", ":", " ">> \o FmtVal(r.caller_id)
    \o <<" ", "|", " ", "R", "e", "s", "o", "l", "v", "e", "d", " ", "b", "y", ":", " ">> \o FmtVal(r.resolved_by) \o <<"\n">>
    \o <<"-", "-", "-", "-", " ", "P", "r", "o", "b", "l", "e", "m", ":", "\n">> \o r.description_compact \o <<"\n">>
    \o <<"-", "-", "-", "-", " ", "S", "o", "l", "u", "t", "i", "o", "n", ":", "\n">> \o r.close_notes_compact \o <<"\n">>
    \o (IF print_work_notes /\ r.work_notes # <<>>
        THEN <<"-", "-", "-", "-", " ", "W", "o", "r", "k", " ", "N", "o", "t", "e", "s", ":", "\n">> \o r.work_notes_compact_cleaned_further \o <<"\n">>
        ELSE <<>>)

\* Record.print_record(print_work_notes), when it raises nothing
print_record(r, print_work_notes) ==
    FmtVal(r.number) \o <<" ", "|", " ">> \o StrftimeLong(r.opened_at) \o <<"\n">>
    \o <<"S", "u", "b", "m", "i", "t", "t", "e", "d", " ", "b", "y", ":", " ">> \o FmtVal(r.caller_id)
    \o <<" ", "|", " ", "R", "e", "s", "o", "l", "v", "e", "d", " ", "b", "y", ":", " ">> \o FmtVal(r.resolved_by) \o <<"\n">>
    \o <<"-", "-", "-", "-", " ", "P", "r", "o", "b", "l", "e", "m", ":", "\n">> \o r.description_compact \o <<"\n">>
    \o <<"-", "-", "-", "-", " ", "S", "o", "l", "u", "t", "i", "o", "n", ":", "\n">> \o r.close_notes_compact \o <<"\n">>
    \o (IF print_work_notes /\ r.work_notes # <<>>
        THEN <<"-", "-", "-", "-", " ", "W", "o", "r", "k", " ", "N", "o", "t", "e", "s", ":", "\n">> \o r.work_notes_compact_cleaned_further \o <<"\n">>
        ELSE <<>>)
    \o Separator

\* get_most_recent_record(records): the index of the record max() returns, the
\* first with the greatest resolved_at among those whose resolved_at is not
\* None; 0 for the default None
RECURSIVE MostRecentFrom(_, _, _)
MostRecentFrom(records, i, best) ==
    IF i > Len(records) THEN best
    ELSE IF records[i].resolved_at = NoneTs THEN MostRecentFrom(records, i + 1, best)
    ELSE IF best = 0 \/ TsLess(records[best].resolved_at, records[i].resolved_at)
         THEN MostRecentFrom(records, i + 1, i)
    ELSE MostRecentFrom(records, i + 1, best)
\* a variant that takes the first resolved record without comparing the dates
FirstResolved(records) ==
    IF \A i \in 1..Len(records) : records[i].resolved_at = NoneTs THEN 0
    ELSE Min({i \in 1..Len(records) : records[i].resolved_at # NoneTs})

get_most_recent_record(records) == MostRecentFrom(records, 1, 0)

\* ------------------------------------------------------------------ codecs

HexDigits ==
    <<"0", "1", "2", "3", "4", "5", "6", "7", "8", "9", "A", "B", "C", "D", "E", "F">>
Hex2(v) == HexDigits[(v \div 16) + 1] \o HexDigits[(v % 16) + 1]

\* the byte of value v >= 128, and the value of such a byte
ByteName(v) == "x" \o Hex2(v)
ByteValue(b) == CHOOSE v \in 128..255 : ByteName(v) = b
\* the character of code point cp >= 128
CharOf(cp) ==
    IF cp < 65536 THEN "U+" \o Hex2(cp \div 256) \o Hex2(cp % 256)
    ELSE "U+" \o Hex2(cp \div 65536) \o Hex2((cp \div 256) % 256) \o Hex2(cp % 256)

IsAscii(b) == Len(b) = 1

\* the elements of a set of positions in increasing order
SortedSeq(S) ==
    [j \in 1..Cardinality(S) |-> CHOOSE i \in S : Cardinality({k \in S : k < i}) = j - 1]

\* UTF-8: the length of the sequence a lead byte of value v starts, 0 for a byte
\* that starts none (a continuation byte, C0, C1, F5..FF)
Utf8Len(v) ==
    IF v >= 194 /\ v <= 223 THEN 2
    ELSE IF v >= 224 /\ v <= 239 THEN 3
    ELSE IF v >= 240 /\ v <= 244 THEN 4
    ELSE 0
\* the values the k-th byte after a lead byte of value v may have
Utf8ContRange(v, k) ==
    IF k = 1 /\ v = 224 THEN 160..191
    ELSE IF k = 1 /\ v = 237 THEN 128..159
    ELSE IF k = 1 /\ v = 240 THEN 144..191
    ELSE IF k = 1 /\ v = 244 THEN 128..143
    ELSE 128..191
\* position i of b holds an ASCII byte or a whole well-formed sequence
Utf8UnitOk(b, i) ==
    \/ IsAscii(b[i])
    \/ LET v == ByteValue(b[i])
       IN /\ Utf8Len(v) > 0
          /\ \A k \in 1..(Utf8Len(v) - 1) :
                /\ i + k <= Len(b)
                /\ ~IsAscii(b[i + k])
                /\ ByteValue(b[i + k]) \in Utf8ContRange(v, k)
\* position i of b starts a unit (is no continuation byte)
Utf8IsStart(b, i) == IsAscii(b[i]) \/ ByteValue(b[i]) \notin 128..191
\* the continuation byte at position i belongs to a well-formed sequence
Utf8Covered(b, i) ==
    \E k \in 1..3 :
        /\ i - k >= 1
        /\ ~IsAscii(b[i - k])
        /\ Utf8Len(ByteValue(b[i - k])) > k
        /\ Utf8UnitOk(b, i - k)
\* the character of the unit that starts at position i
Utf8Char(b, i) ==
    IF IsAscii(b[i]) THEN b[i]
    ELSE LET v == ByteValue(b[i])
             c(k) == ByteValue(b[i + k]) % 64
         IN CASE Utf8Len(v) = 2 -> CharOf((v % 32) * 64 + c(1))
              [] Utf8Len(v) = 3 -> CharOf((v % 16) * 4096 + c(1) * 64 + c(2))
              [] Utf8Len(v) = 4 -> CharOf((v % 8) * 262144 + c(1) * 4096 + c(2) * 64 + c(3))

\* windows-1252: the code points of bytes 80..9F, 0 where the codec has none
Cp1252High ==
    <<8364, 0, 8218, 402, 8222, 8230, 8224, 8225, 710, 8240, 352, 8249, 338, 0, 381, 0,
      0, 8216, 8217, 8220, 8221, 8226, 8211, 8212, 732, 8482, 353, 8250, 339, 0, 382, 376>>
Cp1252Point(v) == IF v < 160 THEN Cp1252High[v - 127] ELSE v

\* bytes.decode(encoding) raises UnicodeDecodeError
DecodeRaises(encoding, b) ==
    CASE encoding = "utf-8" ->
            \E i \in 1..Len(b) :
                IF Utf8IsStart(b, i) THEN ~Utf8UnitOk(b, i) ELSE ~Utf8Covered(b, i)
      [] encoding = "iso-8859-1" -> FALSE
      [] encoding = "windows-1252" ->
            \E i \in 1..Len(b) : ~IsAscii(b[i]) /\ Cp1252Point(ByteValue(b[i])) = 0

\* bytes.decode(encoding), when it raises nothing
Decode(encoding, b) ==
    CASE encoding = "utf-8" ->
            LET starts == SortedSeq({i \in 1..Len(b) : Utf8IsStart(b, i)})
            IN [j \in 1..Len(starts) |-> Utf8Char(b, starts[j])]
      [] encoding = "iso-8859-1" ->
            [i \in 1..Len(b) |-> IF IsAscii(b[i]) THEN b[i] ELSE CharOf(ByteValue(b[i]))]
      [] encoding = "windows-1252" ->
            [i \in 1..Len(b) |->
                IF IsAscii(b[i]) THEN b[i] ELSE CharOf(Cp1252Point(ByteValue(b[i])))]

\* the characters iso-8859-1 can encode
Latin1Chars == {CharOf(cp) : cp \in 128..255}
\* str.encode('iso-8859-1') raises UnicodeEncodeError
EncodeRaises(s) == \E i \in 1..Len(s) : ~IsAscii(s[i]) /\ s[i] \notin Latin1Chars

\* a row of the file as csv.DictReader hands it over under the given header: the
\* value of each column of the header, decoded
DecodeVal(encoding, v) == IF v.isNone THEN None ELSE Str(Decode(encoding, v.s))
RowDict(encoding, header, raw) == [k \in header |-> DecodeVal(encoding, raw[k])]
RowDecodeRaises(encoding, raw) ==
    \E k \in DOMAIN raw : ~raw[k].isNone /\ DecodeRaises(encoding, raw[k].s)

\* ------------------------------------------------------------------ inputs

\* the longest file, in rows, and the longest sequence of records handed to
\* save_to_text
MaxRows == 2

\* load_csv_to_dict: encodings
Encodings == <<"utf-8", "iso-8859-1", "windows-1252">>

\* the exceptions of the model
Exceptions ==
    {"UnicodeDecodeError", "FileNotFoundError", "PermissionError", "OSError", "KeyError",
     "TypeError", "AttributeError", "UnicodeEncodeError"}

\* The rows the files of the model are made of, as the bytes of each column.
\* RowExample is the row of the specification's example with a resolution date.
RowExample ==
    [k \in Columns |->
        CASE k = "number" -> Str(<<"I", "N", "C", "0", "0", "1">>)
          [] k = "opened_at" -> Str(<<"2", "0", "2", "4", "-", "0", "5", "-", "0", "1", " ", "0", "8", ":", "0", "0", ":", "0", "0">>)
          [] k = "description" -> Str(<<"I", "s", "s", "u", "e", "\n", "\n", "\n", "h", "a", "p", "p", "e", "n", "e", "d">>)
          [] k = "short_description" -> Str(<<"X">>)
          [] k = "caller_id" -> Str(<<"a", "n", "n">>)
          [] k = "category" -> Str(<<"n", "e", "t">>)
          [] k = "assignment_group" -> Str(<<"L", "1">>)
          [] k = "assigned_to" -> Str(<<"b", "o", "b">>)
          [] k = "work_notes" -> Str(<<"E", "s", "c", "a", "l", "a", "t", "e", " ", "i", "n", " ", "1", "5", " ", "m", "i", "n", "u", "t", "e", "s", " ", "t", "o", " ", "L", "2", " ", "T", "e", "a", "m", "\n", "(", "W", "o", "r", "k", " ", "n", "o", "t", "e", "s", ")">>)
          [] k = "resolved_at" -> Str(<<"2", "0", "2", "4", "-", "0", "1", "-", "0", "1", " ", "1", "0", ":", "0", "0", ":", "0", "0">>)
          [] k = "resolved_by" -> Str(<<"b", "o", "b">>)
          [] k = "close_notes" -> Str(<<"F", "i", "x", "e", "d", " ", "i", "t">>)]
\* resolved later, no work notes, a caller name with an e acute in UTF-8
RowLater ==
    [RowExample EXCEPT !["number"] = Str(<<"I", "N", "C", "0", "0", "2">>),
                       !["caller_id"] = Str(<<"z", "o", "xC3", "xA9">>),
                       !["work_notes"] = Str(<<" ", "\n">>),
                       !["close_notes"] = Str(<<" ", "R", "e", "b", "o", "o", "t", "e", "d", "\n", "\n", "\n", "o", "k", " ", "\n">>),
                       !["resolved_at"] = Str(<<"2", "0", "2", "4", "-", "0", "3", "-", "0", "5", " ", "0", "9", ":", "0", "0", ":", "0", "0">>)]
\* not resolved: resolved_at is the empty string
RowOpen ==
    [RowExample EXCEPT !["number"] = Str(<<"I", "N", "C", "0", "0", "3">>),
                       !["work_notes"] = Str(<<"2", "0", "2", "4", "-", "0", "5", "-", "0", "1", " ", "0", "9", ":", "0", "0", ":", "0", "0", " ", "-", " ", "b", "o", "b", " ", "(", "W", "o", "r", "k", " ", "n", "o", "t", "e", "s", ")", "\n", "c", "a", "l", "l", "e", "d">>),
                       !["resolved_at"] = Str(<<>>)]
\* an opening date strptime refuses; resolved at the same second as RowLater
RowBadOpened ==
    [RowExample EXCEPT !["number"] = Str(<<"I", "N", "C", "0", "0", "4">>),
                       !["opened_at"] = Str(<<"0", "1", "/", "0", "5", "/", "2", "0", "2", "4", " ", "0", "8", ":", "0", "0">>),
                       !["resolved_at"] = Str(<<"2", "0", "2", "4", "-", "3", "-", "5", " ", "9", ":", "0", "0", ":", "0", "0">>)]
\* a caller name with an e acute in ISO-8859-1: not UTF-8
RowLatin ==
    [RowExample EXCEPT !["number"] = Str(<<"I", "N", "C", "0", "0", "5">>),
                       !["caller_id"] = Str(<<"r", "e", "n", "xE9">>),
                       !["resolved_at"] = Str(<<"2", "0", "2", "3", "-", "1", "2", "-", "3", "1", " ", "2", "3", ":", "5", "9", ":", "5", "9">>)]
\* a euro sign in UTF-8 in the close notes: no ISO-8859-1 character
RowEuro ==
    [RowExample EXCEPT !["number"] = Str(<<"I", "N", "C", "0", "0", "6">>),
                       !["close_notes"] = Str(<<"5", "xE2", "x82", "xAC">>),
                       !["work_notes"] = Str(<<>>),
                       !["resolved_at"] = Str(<<"2", "0", "2", "4", "-", "0", "2", "-", "2", "9", " ", "1", "2", ":", "3", "0", ":", "0", "5">>)]
\* a line with one field: csv.DictReader fills the other columns with None
RowShort == [k \in Columns |-> IF k = "number" THEN Str(<<"I", "N", "C", "0", "0", "7">>) ELSE None]

SampleRows == {RowExample, RowLater, RowOpen, RowBadOpened, RowLatin, RowEuro, RowShort}

\* the sequences of at most n elements of S
SeqsUpTo(S, n) == UNION {[1..k -> S] : k \in 0..n}

\* the headers of the model: every column, or every column but resolved_by
Headers == {Columns, Columns \ {"resolved_by"}}

\* what the user types at the prompt
UserInputs == {<<>>, <<" ", "e", "x", "p", "o", "r", "t", ".", "c", "s", "v", " ">>}

\* arguments of a direct call of Record.parse_date
DateArgs ==
    {None} \cup
    {Str(d) : d \in
        {<<"2", "0", "2", "4", "-", "0", "1", "-", "0", "1", " ", "1", "0", ":", "0", "0", ":", "0", "0">>, <<"2", "0", "2", "4", "-", "0", "3", "-", "0", "5", " ", "0", "9", ":", "0", "0", ":", "0", "0">>, <<"1", "9", "9", "9", "-", "1", "2", "-", "3", "1", " ", "2", "3", ":", "5", "9", ":", "5", "9">>,
         <<"2", "0", "2", "4", "-", "0", "2", "-", "2", "9", " ", "0", "0", ":", "0", "0", ":", "0", "0">>, <<>>, <<" ">>, <<"2", "0", "2", "3", "-", "0", "2", "-", "2", "9", " ", "0", "0", ":", "0", "0", ":", "0", "0">>,
         <<"2", "0", "2", "4", "-", "1", "3", "-", "0", "1", " ", "1", "0", ":", "0", "0", ":", "0", "0">>, <<"2", "0", "2", "4", "-", "0", "1", "-", "0", "1", " ", "2", "4", ":", "0", "0", ":", "0", "0">>, <<"2", "0", "2", "4", "-", "0", "1", "-", "0", "1", " ", "1", "0", ":", "0", "0", ":", "6", "0">>,
         <<"2", "0", "2", "4", "-", "0", "1", "-", "0", "1">>, <<"2", "0", "2", "4", "-", "0", "1", "-", "0", "1", "T", "1", "0", ":", "0", "0", ":", "0", "0">>, <<"2", "0", "2", "4", "-", "0", "1", "-", "0", "1", " ", "1", "0", ":", "0", "0", ":", "0", "0", " ">>,
         <<"0", "1", "/", "0", "5", "/", "2", "0", "2", "4", " ", "0", "8", ":", "0", "0">>, <<"n", "/", "a">>, <<"2", "0", "2", "4", "-", "1", "-", "5", " ", "8", ":", "0", ":", "0">>, <<"2", "0", "2", "4", "-", "0", "1", "-", "0", "1", "\t", "1", "0", ":", "0", "0", ":", "0", "0">>}}

\* work notes of the rows handed to a direct call of Record
WorkNotesTexts ==
    {<<"E", "s", "c", "a", "l", "a", "t", "e", " ", "i", "n", " ", "1", "5", " ", "m", "i", "n", "u", "t", "e", "s", " ", "t", "o", " ", "L", "2", " ", "T", "e", "a", "m", "\n", "(", "W", "o", "r", "k", " ", "n", "o", "t", "e", "s", ")">>,
     <<"E", "s", "c", "a", "l", "a", "t", "e", " ", "i", "n", " ", "3", "0", " ", "m", "i", "n", "u", "t", "e", "s", " ", "t", "o", " ", "T", "e", "a", "m", " ", "X", "\n">>,
     <<"E", "s", "c", "a", "l", "a", "t", "e", " ", "i", "n", " ", "3", "0", " ", "m", "i", "n", "u", "t", "e", "s", " ", "t", "o", " ", "T", "e", "a", "m", " ", "X", "\n", "r", "e", "s", "t", "a", "r", "t", "e", "d", " ", "t", "h", "e", " ", "s", "e", "r", "v", "i", "c", "e", "\n">>,
     <<"s", "e", "e", "n", " ", "b", "y", " ", "t", "h", "e", " ", "n", "i", "g", "h", "t", " ", "s", "h", "i", "f", "t", "\n", "E", "s", "c", "a", "l", "a", "t", "e", " ", "i", "n", " ", "3", "0", " ", "m", "i", "n", "u", "t", "e", "s", " ", "t", "o", " ", "T", "e", "a", "m", " ", "X">>,
     <<"E", "s", "c", "a", "l", "a", "t", "e", " ", "i", "n", " ", "5", " ", "m", "i", "n", "u", "t", "e", "s", " ", "t", "o", " ", "A", "\n", "E", "s", "c", "a", "l", "a", "t", "e", " ", "i", "n", " ", "5", " ", "m", "i", "n", "u", "t", "e", "s", " ", "t", "o", " ", "B">>,
     <<"2", "0", "2", "4", "-", "0", "5", "-", "0", "1", " ", "0", "9", ":", "0", "0", ":", "0", "0", " ", "-", " ", "b", "o", "b", " ", "(", "W", "o", "r", "k", " ", "n", "o", "t", "e", "s", ")", "\n", "\n", "\n", "c", "a", "l", "l", "e", "d", " ", "u", "s", "e", "r", "\n", "\n", "E", "s", "c", "a", "l", "a", "t", "e", " ", "i", "n", " ", "5", " ", "m", "i", "n", "u", "t", "e", "s", " ", "t", "o", " ", "L", "2", "\n", "\n", "2", "0", "2", "4", "-", "0", "5", "-", "0", "1", " ", "0", "9", ":", "3", "0", ":", "0", "0", " ", "-", " ", "e", "v", "e", " ", "(", "W", "o", "r", "k", " ", "n", "o", "t", "e", "s", ")", "\n", "d", "o", "n", "e">>,
     <<"T", "h", "i", "s", " ", "i", "n", "c", "i", "d", "e", "n", "t", " ", "e", "s", "c", "a", "l", "a", "t", "i", "o", "n", " ", "i", "s", " ", "i", "n", " ", "p", "r", "o", "g", "r", "e", "s", "s", " ", "u", "s", "i", "n", "g", " ", "t", "h", "e", " ", "f", "o", "l", "l", "o", "w", "i", "n", "g", " ", "e", "s", "c", "a", "l", "a", "t", "i", "o", "n", " ", "p", "l", "a", "n", ":", "\n", "E", "s", "c", "a", "l", "a", "t", "e", " ", "i", "n", " ", "1", "0", " ", "m", "i", "n", "u", "t", "e", "s", " ", "t", "o", " ", "D", "u", "t", "y", " ", "M", "a", "n", "a", "g", "e", "r", "\n", "E", "s", "c", "a", "l", "a", "t", "e", " ", "i", "n", " ", "2", "0", " ", "m", "i", "n", "u", "t", "e", "s", " ", "t", "o", " ", "L", "3", "\n", "e", "n", "d">>,
     <<"E", "s", "c", "a", "l", "a", "t", "e", " ", "i", "n", " ", "1", "E", "s", "c", "a", "l", "a", "t", "e", " ", "i", "n", " ", "5", " ", "m", "i", "n", "u", "t", "e", "s", " ", "t", "o", " ", "A", "\n", "5", " ", "m", "i", "n", "u", "t", "e", "s", " ", "t", "o", " ", "B", "\n", "x">>,
     <<"c", "h", "e", "c", "k", "e", "d", " ", "t", "h", "e", " ", "l", "o", "g", "s", " ", "(", "W", "o", "r", "k", " ", "(", "W", "o", "r", "k", " ", "n", "o", "t", "e", "s", ")", " ", "n", "o", "t", "e", "s", ")", " ", "a", "n", "d", " ", "c", "l", "o", "s", "e", "d">>,
     <<"E", "s", "c", "a", "l", "a", "t", "e", " ", "i", "n", " ", "f", "i", "v", "e", " ", "m", "i", "n", "u", "t", "e", "s", " ", "t", "o", " ", "L", "2", "\n", "E", "s", "c", "a", "l", "a", "t", "e", " ", "t", "o", " ", "L", "2", " ", "i", "n", " ", "5", " ", "m", "i", "n", "u", "t", "e", "s", "\n">>,
     <<>>}

\* arguments of a direct call of Record: the sample rows as UTF-8 or ISO-8859-1
\* reads them under either header, and the example row with each work notes text
RowArgs ==
    UNION {{RowDict(e, h, r) : h \in Headers, r \in {x \in SampleRows : ~RowDecodeRaises(e, x)}} :
             e \in {"utf-8", "iso-8859-1"}}
    \cup {RowDict("utf-8", Columns, [RowExample EXCEPT !["work_notes"] = Str(w)]) :
            w \in WorkNotesTexts}

\* the records save_to_text is called with directly
RecordArgs ==
    UNION {{Record(RowDict(e, Columns, r)) :
                r \in {x \in SampleRows : /\ ~RowDecodeRaises(e, x)
                                          /\ RecordRaises(RowDict(e, Columns, x)) = "none"}} :
             e \in {"utf-8", "iso-8859-1"}}

\* ------------------------------------------------------------------ state

VARIABLES
    entry,       \* what is run: the script, or one function called directly
    pc,          \* where the run is
    userInput,   \* what the user types at the prompt
    filename,    \* __main__: filename
    fileStatus,  \* the input file: "ok", "missing", or "denied" (open raises OSError)
    header,      \* the columns of the file's header
    rows,        \* the rows of the file, as bytes
    chunk,       \* the rows the text layer decodes at a time
    encIdx,      \* load_csv_to_dict: the encoding the loop is at
    rowIdx,      \* load_csv_to_dict: the row the comprehension is at
    recs,        \* load_csv_to_dict: the list the comprehension is building
    attempts,    \* the encodings tried so far, each with how the attempt ended
    records,     \* the records of __main__, the argument of save_to_text
    count,       \* __main__: count
    outName,     \* save_to_text: filename
    outFile,     \* the output file: whether it exists, its name, the blocks written
    wIdx,        \* save_to_text: the record the loop is at
    out,         \* what was printed
    raised,      \* the exception that ended the run, "none" if none
    callArg,     \* the argument of a direct call of parse_date or Record
    callResult   \* what the direct call returned

vars ==
    <<entry, pc, userInput, filename, fileStatus, header, rows, chunk, encIdx, rowIdx, recs,
      attempts, records, count, outName, outFile, wIdx, out, raised, callArg, callResult>>

inputVars == <<entry, userInput, fileStatus, header, rows, chunk, callArg>>
loaderVars == <<encIdx, rowIdx, recs, attempts>>
writerVars == <<outName, outFile, wIdx>>

NoFile == [exists |-> FALSE, name |-> <<>>, blocks |-> <<>>]

\* a printed message
Msg(kind, text) == [kind |-> kind, text |-> text]
Text(str) ==
    CASE str = "utf-8" -> <<"u", "t", "f", "-", "8">>
      [] str = "iso-8859-1" -> <<"i", "s", "o", "-", "8", "8", "5", "9", "-", "1">>
      [] str = "windows-1252" -> <<"w", "i", "n", "d", "o", "w", "s", "-", "1", "2", "5", "2">>
      [] OTHER -> <<>>

InitCommon ==
    /\ filename = <<>>
    /\ encIdx = 1
    /\ rowIdx = 1
    /\ recs = <<>>
    /\ attempts = <<>>
    /\ count = 0
    /\ outName = <<>>
    /\ outFile = NoFile
    /\ wIdx = 1
    /\ out = <<>>
    /\ raised = "none"
    /\ callResult = NoneTs

InitMain ==
    /\ entry = "main"
    /\ pc = "prompt"
    /\ userInput \in UserInputs
    /\ \/ /\ fileStatus = "ok"
          /\ header \in Headers
          /\ rows \in SeqsUpTo(SampleRows, MaxRows)
          /\ chunk \in 1..MaxRows
       \/ /\ fileStatus \in {"missing", "denied"}
          /\ header = Columns
          /\ rows = <<>>
          /\ chunk = 1
    /\ records = <<>>
    /\ callArg = None

InitSave ==
    /\ entry = "save_to_text"
    /\ pc = "save_name"
    /\ records \in SeqsUpTo(RecordArgs, MaxRows)
    /\ userInput = <<>> /\ fileStatus = "ok" /\ header = Columns /\ rows = <<>> /\ chunk = 1
    /\ callArg = None

InitParseDate ==
    /\ entry = "parse_date"
    /\ pc = "call_parse_date"
    /\ callArg \in DateArgs
    /\ userInput = <<>> /\ fileStatus = "ok" /\ header = Columns /\ rows = <<>> /\ chunk = 1
    /\ records = <<>>

InitRecord ==
    /\ entry = "Record"
    /\ pc = "call_record"
    /\ callArg \in RowArgs
    /\ userInput = <<>> /\ fileStatus = "ok" /\ header = Columns /\ rows = <<>> /\ chunk = 1
    /\ records = <<>>

Init == InitCommon /\ (InitMain \/ InitSave \/ InitParseDate \/ InitRecord)

\* ------------------------------------------------------------------ __main__

DefaultFilename == <<"i", "n", "c", "i", "d", "e", "n", "t", ".", "c", "s", "v">>

\* x or default, for a str x
OrDefault(x, default) == IF x = <<>> THEN default ELSE x

\* the run ends with exception exc uncaught
Crash(exc) ==
    /\ pc' = "crashed"
    /\ raised' = exc

\* lines 120-123: the welcome, the prompt, the call of load_csv_to_dict
Prompt ==
    /\ pc = "prompt"
    /\ filename' = OrDefault(Strip(userInput), DefaultFilename)
    /\ out' = Append(out, Msg("welcome", <<>>))
    /\ pc' = "load_try"
    /\ UNCHANGED <<inputVars, loaderVars, writerVars, records, count, raised, callResult>>

\* ------------------------------------------------------------------ load_csv_to_dict

\* a variant without the last clause, `except Exception`
LoaderHandlerNoCatchAll(exc) ==
    IF exc = "UnicodeDecodeError" THEN "pass"
    ELSE IF exc = "FileNotFoundError" THEN "missing"
    ELSE "propagate"

\* a variant whose last clause is `except OSError`
LoaderHandlerOSError(exc) ==
    IF exc = "UnicodeDecodeError" THEN "pass"
    ELSE IF exc = "FileNotFoundError" THEN "missing"
    ELSE IF exc \in {"PermissionError", "OSError"} THEN "error"
    ELSE "propagate"

\* which except clause of load_csv_to_dict takes exception exc: "pass" (go on
\* to the next encoding), "missing", "error"; "propagate" if none does
LoaderHandler(exc) ==
    IF exc = "UnicodeDecodeError" THEN "pass"
    ELSE IF exc = "FileNotFoundError" THEN "missing"
    ELSE IF exc \in Exceptions THEN "error"
    ELSE "propagate"

\* a variant that steps over an encoding
SkipEncodingIdx(i) == i + 2

\* the for loop goes from the encoding at index i to the next
NextEncodingIdx(i) == i + 1

\* load_csv_to_dict returns value to __main__
LoaderReturn(value) ==
    /\ records' = value
    /\ pc' = "main_check"
    /\ raised' = raised

\* exception exc is raised inside the try of load_csv_to_dict, the attempts
\* so far being atts
LoaderRaise(exc, atts) ==
    /\ attempts' = [atts EXCEPT ![Len(atts)].outcome = exc]
    /\ rowIdx' = 1
    /\ recs' = <<>>
    /\ CASE LoaderHandler(exc) = "pass" ->
                /\ encIdx' = NextEncodingIdx(encIdx)
                /\ pc' = "load_try"
                /\ UNCHANGED <<out, records, raised>>
         [] LoaderHandler(exc) = "missing" ->
                /\ out' = Append(out, Msg("does not exist", filename))
                /\ LoaderReturn(<<>>)
                /\ UNCHANGED encIdx
         [] LoaderHandler(exc) = "error" ->
                /\ out' = Append(out, Msg("An error occurred", <<>>))
                /\ LoaderReturn(<<>>)
                /\ UNCHANGED encIdx
         [] OTHER ->
                /\ Crash(exc)
                /\ UNCHANGED <<out, records, encIdx>>

\* the exception open(filename, mode='r', encoding=encoding) raises
OpenRaises(status) ==
    CASE status = "missing" -> "FileNotFoundError"
      [] status = "denied" -> "PermissionError"
      [] OTHER -> "none"

\* lines 82-84 and 97-98: the loop takes the next encoding and opens the file,
\* or is through the list and gives up
TryEncoding ==
    /\ pc = "load_try"
    /\ IF encIdx > Len(Encodings)
       THEN /\ out' = Append(out, Msg("Failed to read", <<>>))
            /\ LoaderReturn(<<>>)
            /\ UNCHANGED loaderVars
       ELSE LET atts == Append(attempts, [encoding |-> Encodings[encIdx], outcome |-> "open"])
            IN IF OpenRaises(fileStatus) # "none"
               THEN LoaderRaise(OpenRaises(fileStatus), atts)
               ELSE /\ attempts' = atts
                    /\ pc' = "load_read"
                    /\ rowIdx' = 1
                    /\ recs' = <<>>
                    /\ UNCHANGED <<encIdx, out, records, raised>>
    /\ UNCHANGED <<inputVars, writerVars, filename, count, callResult>>

\* the rows the text layer decodes together with row i, when reading row i makes
\* it decode: rows i .. i + chunk - 1 at the start of a chunk, none inside one
ChunkRows(i) ==
    IF (i - 1) % chunk = 0
    THEN {j \in i..(i + chunk - 1) : j <= Len(rows)}
    ELSE {}

\* lines 85-88: the comprehension reads the next row and builds its Record, or
\* is at the end of the file and load_csv_to_dict returns the list
ReadRow ==
    /\ pc = "load_read"
    /\ IF rowIdx > Len(rows)
       THEN /\ attempts' = [attempts EXCEPT ![Len(attempts)].outcome = "ok"]
            /\ out' = Append(out, Msg("File read successfully", Text(Encodings[encIdx])))
            /\ LoaderReturn(recs)
            /\ rowIdx' = 1
            /\ recs' = <<>>
            /\ UNCHANGED encIdx
       ELSE \E ioError \in (IF ChunkRows(rowIdx) # {} THEN BOOLEAN ELSE {FALSE}) :
            LET row_dict == RowDict(Encodings[encIdx], header, rows[rowIdx])
            IN IF ioError THEN LoaderRaise("OSError", attempts)
               ELSE IF \E j \in ChunkRows(rowIdx) : RowDecodeRaises(Encodings[encIdx], rows[j])
               THEN LoaderRaise("UnicodeDecodeError", attempts)
               ELSE IF RecordRaises(row_dict) # "none"
               THEN LoaderRaise(RecordRaises(row_dict), attempts)
               ELSE /\ recs' = Append(recs, Record(row_dict))
                    /\ rowIdx' = rowIdx + 1
                    /\ UNCHANGED <<pc, encIdx, attempts, out, records, raised>>
    /\ UNCHANGED <<inputVars, writerVars, filename, count, callResult>>

\* ------------------------------------------------------------------ __main__, after the load

\* lines 125-126 and 133-134: `if records:`
MainCheck ==
    /\ pc = "main_check"
    /\ IF records # <<>>
       THEN /\ count' = 0
            /\ pc' = "main_print"
            /\ out' = out
       ELSE /\ out' = Append(out, Msg("No records found", <<>>))
            /\ pc' = "done"
            /\ count' = count
    /\ UNCHANGED <<inputVars, loaderVars, writerVars, filename, records, raised, callResult>>

\* lines 127-131: one line per record with the day it was resolved, then the
\* total and the call of save_to_text
MainPrint ==
    /\ pc = "main_print"
    /\ IF count = Len(records)
       THEN /\ out' = Append(out, Msg("Total", <<>>))
            /\ pc' = "save_name"
            /\ UNCHANGED <<count, raised>>
       ELSE IF records[count + 1].resolved_at = NoneTs
       THEN /\ Crash("AttributeError")
            /\ UNCHANGED <<count, out>>
       ELSE /\ out' = Append(out, Msg("record", FmtVal(records[count + 1].number) \o <<" ">>
                                      \o StrftimeDay(records[count + 1].resolved_at)))
            /\ count' = count + 1
            /\ UNCHANGED <<pc, raised>>
    /\ UNCHANGED <<inputVars, loaderVars, writerVars, filename, records, callResult>>

\* ------------------------------------------------------------------ save_to_text

\* a variant whose clause is `except OSError`
WriterCatchesOSError(exc) == exc \in {"PermissionError", "OSError"}

\* whether the except clause of save_to_text takes exception exc
WriterCatches(exc) == exc \in Exceptions

\* exception exc is raised inside the try of save_to_text
WriterRaise(exc) ==
    IF WriterCatches(exc)
    THEN /\ out' = Append(out, Msg("An error occurred", <<>>))
         /\ pc' = "done"
         /\ raised' = raised
    ELSE /\ Crash(exc)
         /\ out' = out

TxtSuffix == <<".", "t", "x", "t">>
Unknown == <<"u", "n", "k", "n", "o", "w", "n">>

\* lines 101-102: the name of the output file
SaveName ==
    /\ pc = "save_name"
    /\ IF get_most_recent_record(records) = 0
       THEN /\ Crash("AttributeError")
            /\ UNCHANGED outName
       ELSE /\ outName' =
                OrDefault(StrftimeStamp(records[get_most_recent_record(records)].resolved_at),
                          Unknown) \o TxtSuffix
            /\ pc' = "save_open"
            /\ raised' = raised
    /\ UNCHANGED <<inputVars, loaderVars, filename, records, count, outFile, wIdx, out,
                   callResult>>

\* line 104: open(filename, 'w', encoding='iso-8859-1'), which may fail
SaveOpen ==
    /\ pc = "save_open"
    /\ \E denied \in BOOLEAN :
          IF denied
          THEN /\ WriterRaise("PermissionError")
               /\ UNCHANGED <<outFile, wIdx>>
          ELSE /\ outFile' = [exists |-> TRUE, name |-> outName, blocks |-> <<>>]
               /\ wIdx' = 1
               /\ pc' = "save_write"
               /\ UNCHANGED <<out, raised>>
    /\ UNCHANGED <<inputVars, loaderVars, filename, records, count, outName, callResult>>

\* lines 105-107: the loop writes the block of the next record, or is through
\* the records, closes the file and reports; a write or the close may fail
SaveWrite ==
    /\ pc = "save_write"
    /\ \E ioError \in BOOLEAN :
          IF ioError THEN /\ WriterRaise("OSError")
                          /\ UNCHANGED <<outFile, wIdx>>
          ELSE IF wIdx > Len(records)
          THEN /\ out' = Append(out, Msg("Successfully saved", outName))
               /\ pc' = "done"
               /\ UNCHANGED <<outFile, wIdx, raised>>
          ELSE IF PrintRecordRaises(records[wIdx]) # "none"
          THEN /\ WriterRaise(PrintRecordRaises(records[wIdx]))
               /\ UNCHANGED <<outFile, wIdx>>
          ELSE IF EncodeRaises(print_record(records[wIdx], TRUE))
          THEN /\ WriterRaise("UnicodeEncodeError")
               /\ UNCHANGED <<outFile, wIdx>>
          ELSE /\ outFile' = [outFile EXCEPT
                                !.blocks = Append(@, print_record(records[wIdx], TRUE))]
               /\ wIdx' = wIdx + 1
               /\ UNCHANGED <<pc, out, raised>>
    /\ UNCHANGED <<inputVars, loaderVars, filename, records, count, outName, callResult>>

\* ------------------------------------------------------------------ direct calls

\* Record.parse_date(callArg)
CallParseDate ==
    /\ pc = "call_parse_date"
    /\ IF ParseDateRaises(callArg) # "none"
       THEN /\ Crash(ParseDateRaises(callArg))
            /\ UNCHANGED callResult
       ELSE /\ callResult' = parse_date(callArg)
            /\ pc' = "done"
            /\ raised' = raised
    /\ UNCHANGED <<inputVars, loaderVars, writerVars, filename, records, count, out>>

\* Record(callArg)
CallRecord ==
    /\ pc = "call_record"
    /\ IF RecordRaises(callArg) # "none"
       THEN /\ Crash(RecordRaises(callArg))
            /\ UNCHANGED callResult
       ELSE /\ callResult' = Record(callArg)
            /\ pc' = "done"
            /\ raised' = raised
    /\ UNCHANGED <<inputVars, loaderVars, writerVars, filename, records, count, out>>

Next ==
    \/ Prompt
    \/ TryEncoding
    \/ ReadRow
    \/ MainCheck
    \/ MainPrint
    \/ SaveName
    \/ SaveOpen
    \/ SaveWrite
    \/ CallParseDate
    \/ CallRecord

Spec == Init /\ [][Next]_vars

\* ------------------------------------------------------------------ properties

Last(s) == s[Len(s)]

\* out holds a message of one of the kinds
Printed(kinds) == \E i \in 1..Len(out) : out[i].kind \in kinds
\* the messages of out of one of the kinds
CountPrinted(kinds) == Cardinality({i \in 1..Len(out) : out[i].kind \in kinds})

\* the current or last attempt of load_csv_to_dict ended with an exception of excs
AttemptEndedWith(excs) == attempts # <<>> /\ Last(attempts).outcome \in excs

\* load_csv_to_dict has read the file to its end and returned its records
LoadedOk == entry = "main" /\ AttemptEndedWith({"ok"})

\* the failures to read the file: it does not exist, it cannot be opened or a
\* read fails, or no encoding of the list decodes it
ReadFailed ==
    \/ AttemptEndedWith({"FileNotFoundError", "PermissionError", "OSError"})
    \/ /\ Len(attempts) = Len(Encodings)
       /\ \A k \in 1..Len(attempts) : attempts[k].outcome = "UnicodeDecodeError"
       /\ pc # "load_try"

\* C1: after a failure to read the file, load_csv_to_dict has raised nothing: it
\* has printed a status message and returned the empty list, and the run ends
\* without a record.
C1_ReadFailureReturnsEmpty ==
    (entry = "main" /\ ReadFailed) =>
        /\ raised = "none"
        /\ pc \in {"main_check", "done"}
        /\ records = <<>>
        /\ Printed({"does not exist", "An error occurred", "Failed to read"})
        /\ ~Printed({"File read successfully"})

\* a read of a file of two rows fails, and load_csv_to_dict has just returned
C1_Witness ==
    /\ entry = "main"
    /\ pc = "main_check"
    /\ Len(rows) = 2
    /\ rowIdx = 1
    /\ AttemptEndedWith({"OSError"})
    /\ Last(out).kind = "An error occurred"
    /\ records = <<>>

\* C2 as the specification states it: when a row lacks a required key, the
\* error leaves load_csv_to_dict and ends the run.
C2_MissingKeyPropagates ==
    (entry = "main" /\ AttemptEndedWith({"KeyError"})) =>
        (pc = "crashed" /\ raised = "KeyError")

\* C2, amended: when a row lacks a required key, load_csv_to_dict catches the
\* KeyError in its last except clause, prints "An error occurred" and returns
\* the empty list; the run then prints "No records found" and ends normally,
\* having written no file.
C2_MissingKeyReturnsEmpty ==
    (entry = "main" /\ AttemptEndedWith({"KeyError"})) =>
        /\ raised = "none"
        /\ pc \in {"main_check", "done"}
        /\ records = <<>>
        /\ Printed({"An error occurred"})
        /\ ~outFile.exists
        /\ pc = "done" => Last(out).kind = "No records found"

\* a file whose header has no resolved_by column: the run has ended normally
C2_Witness ==
    /\ entry = "main"
    /\ pc = "done"
    /\ "resolved_by" \notin header
    /\ Len(rows) = 2
    /\ AttemptEndedWith({"KeyError"})
    /\ Last(out).kind = "No records found"

\* the first encoding of the list that decodes every row of the file, as an
\* index of the list (0 if none does)
FirstDecoding ==
    LET ok == {k \in 1..Len(Encodings) :
                  \A j \in 1..Len(rows) : ~RowDecodeRaises(Encodings[k], rows[j])}
    IN IF ok = {} THEN 0 ELSE Min(ok)

\* C3: the encodings are tried in the order of the list, each only after the one
\* before it failed to decode; nothing is tried after a success or another
\* failure; and the records load_csv_to_dict returns are those of the first
\* encoding that decodes the whole file, one per row.
C3_EncodingOrder ==
    entry = "main" =>
        /\ Len(attempts) <= Len(Encodings)
        /\ \A k \in 1..Len(attempts) : attempts[k].encoding = Encodings[k]
        /\ \A k \in 1..(Len(attempts) - 1) : attempts[k].outcome = "UnicodeDecodeError"
        /\ (LoadedOk /\ pc = "main_check") =>
              LET first == FirstDecoding
              IN /\ Len(attempts) = first
                 /\ Len(records) = Len(rows)
                 /\ \A j \in 1..Len(rows) :
                       records[j] = Record(RowDict(Encodings[first], header, rows[j]))

\* the second row is not UTF-8, and the first row's record was built before the
\* text layer got to it
C3_Witness ==
    /\ entry = "main"
    /\ LoadedOk
    /\ chunk = 1
    /\ Len(rows) = 2
    /\ ~RowDecodeRaises("utf-8", rows[1])
    /\ RowDecodeRaises("utf-8", rows[2])
    /\ Len(attempts) = 2
    /\ attempts[1].outcome = "UnicodeDecodeError"
    /\ attempts[2].outcome = "ok"
    /\ Len(records) = 2

\* save_to_text is running or has run
InSave == pc \in {"save_open", "save_write", "done"} /\ outName # <<>>

HasResolved(recordSeq) == \E i \in 1..Len(recordSeq) : recordSeq[i].resolved_at # NoneTs

\* name is YYYY-MM-DD_HH-MM-SS.txt for the fields of timestamp t
NamedAfter(name, t) ==
    /\ Len(name) = 23
    /\ \A i \in {1, 2, 3, 4, 6, 7, 9, 10, 12, 13, 15, 16, 18, 19} : IsDigit(name[i])
    /\ name[5] = "-" /\ name[8] = "-" /\ name[11] = "_" /\ name[14] = "-" /\ name[17] = "-"
    /\ SubSeq(name, 20, 23) = <<".", "t", "x", "t">>
    /\ Strptime(SubSeq(name, 1, 10) \o <<" ">> \o SubSeq(name, 12, 13) \o <<":">>
                \o SubSeq(name, 15, 16) \o <<":">> \o SubSeq(name, 18, 19)) = t

\* C4: when some record has a resolved_at, save_to_text gets past the naming of
\* the file, and the file is named after a resolved_at that no other resolved_at
\* of the sequence exceeds.
C4_NamedAfterMostRecent ==
    (entry \in {"main", "save_to_text"} /\ HasResolved(records)) =>
        /\ entry = "save_to_text" => raised = "none"
        /\ InSave =>
              \E i \in 1..Len(records) :
                  /\ records[i].resolved_at # NoneTs
                  /\ \A j \in 1..Len(records) :
                        records[j].resolved_at # NoneTs =>
                            ~TsLess(records[i].resolved_at, records[j].resolved_at)
                  /\ NamedAfter(outName, records[i].resolved_at)
                  /\ outFile.exists => outFile.name = outName

\* the two records of the specification's example
C4_Witness ==
    /\ entry = "save_to_text"
    /\ pc = "done"
    /\ Len(records) = 2
    /\ records[1].resolved_at = <<2024, 1, 1, 10, 0, 0>>
    /\ records[2].resolved_at = <<2024, 3, 5, 9, 0, 0>>
    /\ outFile.exists
    /\ outFile.name = <<"2", "0", "2", "4", "-", "0", "3", "-", "0", "5", "_", "0", "9", "-", "0", "0", "-", "0", "0", ".", "t", "x", "t">>

DashLine ==
    <<"-", "-", "-", "-", "-", "-", "-", "-", "-", "-", "-", "-", "-", "-", "-", "-", "-", "-", "-", "-", "-", "-", "-", "-", "-", "-", "-", "-", "-", "-", "-", "-", "-", "-", "-", "-", "-", "-", "-", "-", "-", "-", "-", "-", "-", "-", "-", "-", "-", "-", "-", "-", "-", "-", "-", "-", "-", "-", "-", "-", "-", "-", "\n", "\n", "\n", "\n">>

EndsWith(s, suffix) ==
    Len(s) >= Len(suffix) /\ SubSeq(s, Len(s) - Len(suffix) + 1, Len(s)) = suffix

\* block is the text of record r: its number first, then its problem and its
\* solution, and the line of dashes last
BlockOf(block, r) ==
    /\ StartsWithAt(block, 1, FmtVal(r.number) \o <<" ", "|", " ">>)
    /\ Contains(block, <<"\n", "-", "-", "-", "-", " ", "P", "r", "o", "b", "l", "e", "m", ":", "\n">> \o r.description_compact
                       \o <<"\n", "-", "-", "-", "-", " ", "S", "o", "l", "u", "t", "i", "o", "n", ":", "\n">> \o r.close_notes_compact \o <<"\n">>)
    /\ r.work_notes # <<>> =>
          Contains(block, <<"\n", "-", "-", "-", "-", " ", "W", "o", "r", "k", " ", "N", "o", "t", "e", "s", ":", "\n">> \o r.work_notes_compact_cleaned_further
                          \o <<"\n">>)
    /\ EndsWith(block, DashLine)

\* C5: when save_to_text has reported success, the file holds one block per
\* record, the i-th block that of the i-th record, each ending with the line
\* of dashes.
C5_BlocksInInputOrder ==
    (entry \in {"main", "save_to_text"} /\ Printed({"Successfully saved"})) =>
        /\ outFile.exists
        /\ Len(outFile.blocks) = Len(records)
        /\ \A i \in 1..Len(records) : BlockOf(outFile.blocks[i], records[i])

\* two records, the later one first
C5_Witness ==
    /\ entry = "save_to_text"
    /\ pc = "done"
    /\ Printed({"Successfully saved"})
    /\ Len(records) = 2
    /\ records[1].resolved_at # NoneTs
    /\ records[2].resolved_at # NoneTs
    /\ TsLess(records[2].resolved_at, records[1].resolved_at)
    /\ records[1].number # records[2].number
    /\ Len(outFile.blocks) = 2

\* a file of two rows, one with an empty resolved_at and one with a well-formed
\* one, that loads
TwoRowsOneUnresolved ==
    /\ entry = "main"
    /\ fileStatus = "ok"
    /\ header = Columns
    /\ Len(rows) = 2
    /\ \E i \in 1..2 :
          /\ rows[i]["resolved_at"] = Str(<<>>)
          /\ ~rows[3 - i]["resolved_at"].isNone
          /\ Len(rows[3 - i]["resolved_at"].s) = 19
          /\ Strptime(rows[3 - i]["resolved_at"].s) # NoneTs

\* C6 as the specification states it: on such a file the load succeeds with one
\* resolved_at None, and the run gets to the writer, which names the file after
\* the other row, without an exception ending the run.
C6_UnresolvedRowEndToEnd ==
    (TwoRowsOneUnresolved /\ LoadedOk) =>
        /\ \E i \in 1..2 : records[i].resolved_at = NoneTs
        /\ raised = "none"
        /\ pc = "done" =>
              \E i \in 1..2 : /\ records[i].resolved_at # NoneTs
                              /\ NamedAfter(outName, records[i].resolved_at)

\* save_to_text has been called
SaveCalled == entry = "save_to_text" \/ (entry = "main" /\ Printed({"Total"}))

\* C7: given a record with a resolved_at, save_to_text lets no exception out,
\* and once it is through, it has printed the success message or the error
\* message and not both; it has printed the error message if a record has no
\* opening date, and whenever the file does not hold every block.
C7_WriteFailureReported ==
    (SaveCalled /\ HasResolved(records)) =>
        /\ raised = "none"
        /\ pc # "crashed"
        /\ CountPrinted({"Successfully saved", "An error occurred"}) =
              (IF pc = "done" THEN 1 ELSE 0)
        /\ pc = "done" =>
              /\ (\E i \in 1..Len(records) : records[i].opened_at = NoneTs) =>
                    Printed({"An error occurred"})
              /\ (~outFile.exists \/ Len(outFile.blocks) < Len(records)) =>
                    Printed({"An error occurred"})

\* the second record has no opening date: the first block is written, then the
\* error is reported
C7_Witness ==
    /\ entry = "save_to_text"
    /\ pc = "done"
    /\ Len(records) = 2
    /\ HasResolved(records)
    /\ records[1].opened_at # NoneTs
    /\ records[2].opened_at = NoneTs
    /\ Len(outFile.blocks) = 1
    /\ wIdx = 2
    /\ Last(out).kind = "An error occurred"
    /\ raised = "none"

\* s is YYYY-MM-DD HH:MM:SS for a date and a time that exist
WellFormedDate(s) ==
    /\ Len(s) = 19
    /\ \A i \in {1, 2, 3, 4, 6, 7, 9, 10, 12, 13, 15, 16, 18, 19} : IsDigit(s[i])
    /\ s[5] = "-" /\ s[8] = "-" /\ s[11] = " " /\ s[14] = ":" /\ s[17] = ":"
    /\ 10 * DigitVal(s[6]) + DigitVal(s[7]) \in 1..12
    /\ 10 * DigitVal(s[9]) + DigitVal(s[10]) \in 1..31
    /\ 10 * DigitVal(s[12]) + DigitVal(s[13]) \in 0..23
    /\ 10 * DigitVal(s[15]) + DigitVal(s[16]) \in 0..59
    /\ 10 * DigitVal(s[18]) + DigitVal(s[19]) \in 0..59
\* the timestamp a well-formed s spells
LiteralDate(s) ==
    <<1000 * DigitVal(s[1]) + 100 * DigitVal(s[2]) + 10 * DigitVal(s[3]) + DigitVal(s[4]),
      10 * DigitVal(s[6]) + DigitVal(s[7]), 10 * DigitVal(s[9]) + DigitVal(s[10]),
      10 * DigitVal(s[12]) + DigitVal(s[13]), 10 * DigitVal(s[15]) + DigitVal(s[16]),
      10 * DigitVal(s[18]) + DigitVal(s[19])>>
DateExists(t) == t[1] >= 1 /\ t[3] <= DaysInMonth(t[1], t[2])

\* C8 as the specification states it: parse_date raises for no value a row can
\* hold; it returns the timestamp a well-formed string spells, and None for an
\* empty, malformed or absent value.
C8_ParseDateNeverRaises ==
    entry = "parse_date" =>
        /\ raised = "none"
        /\ pc = "done" =>
              IF ~callArg.isNone /\ WellFormedDate(callArg.s) /\ DateExists(LiteralDate(callArg.s))
              THEN callResult = LiteralDate(callArg.s)
              ELSE callResult = NoneTs

\* s holds "Escalate in <N> minutes to <target>" up to the end of a line
HasEscalateLine(s) ==
    \E i \in 1..Len(s) : \E d \in 1..Len(s) :
        /\ StartsWithAt(s, i, EscalatePrefix)
        /\ \A j \in 0..(d - 1) : IsDigit(At(s, i + Len(EscalatePrefix) + j))
        /\ StartsWithAt(s, i + Len(EscalatePrefix) + d, EscalateMiddle)
        /\ At(s, i + Len(EscalatePrefix) + d + Len(EscalateMiddle)) \notin {"", "\n"}
\* the same, the line ended by a newline
HasEscalateLineNewline(s) ==
    \E i \in 1..Len(s) : \E d \in 1..Len(s) : \E e \in 1..Len(s) :
        /\ StartsWithAt(s, i, EscalatePrefix)
        /\ \A j \in 0..(d - 1) : IsDigit(At(s, i + Len(EscalatePrefix) + j))
        /\ StartsWithAt(s, i + Len(EscalatePrefix) + d, EscalateMiddle)
        /\ e > i + Len(EscalatePrefix) + d + Len(EscalateMiddle)
        /\ \A j \in (i + Len(EscalatePrefix) + d + Len(EscalateMiddle))..(e - 1) : s[j] # "\n"
        /\ s[e] = "\n"

\* what follows the last newline of s
LastLine(s) == SubSeq(s, Max({0} \cup {j \in 1..Len(s) : s[j] = "\n"}) + 1, Len(s))

ExampleWorkNotes == <<"E", "s", "c", "a", "l", "a", "t", "e", " ", "i", "n", " ", "1", "5", " ", "m", "i", "n", "u", "t", "e", "s", " ", "t", "o", " ", "L", "2", " ", "T", "e", "a", "m", "\n", "(", "W", "o", "r", "k", " ", "n", "o", "t", "e", "s", ")">>

\* C9 as the specification states it: the cleaned work notes of a Record hold
\* no escalation line and no "(Work notes)".
C9_NoEscalationNoTag ==
    (entry = "Record" /\ pc = "done") =>
        /\ ~HasEscalateLine(callResult.work_notes_compact_cleaned_further)
        /\ ~Contains(callResult.work_notes_compact_cleaned_further, Tail(WorkNotesTag))

\* C9, amended: for the row of the specification's example the cleaned work
\* notes are "(Work notes)": the escalation line is gone and the tag, which no
\* space precedes, stays.  For every row, the cleaned work notes are shorter
\* than the compacted ones when these hold an escalation line ended by a
\* newline, the tag " (Work notes)" with its space or the plan sentence, and
\* are the compacted ones unchanged when they hold none of the three; an
\* escalation line that ends the work notes, no newline after it, is not
\* removed by the pattern.
C9_CleanedWorkNotes ==
    (entry = "Record" /\ pc = "done") =>
        LET compact == callResult.work_notes_compact
            further == callResult.work_notes_compact_cleaned_further
        IN /\ compact = ExampleWorkNotes =>
                 /\ further = Tail(WorkNotesTag)
                 /\ ~HasEscalateLine(further)
           /\ IF \/ HasEscalateLineNewline(compact)
                 \/ Contains(compact, WorkNotesTag)
                 \/ Contains(compact, PlanSentence)
              THEN Len(further) < Len(compact)
              ELSE further = compact
           /\ HasEscalateLine(LastLine(compact)) =>
                 EndsWith(callResult.work_notes_compact_cleaned, LastLine(compact))

\* Record was called with the row of the specification's example
C9_Witness ==
    /\ entry = "Record"
    /\ pc = "done"
    /\ callArg["work_notes"] = Str(ExampleWorkNotes)
    /\ callResult.work_notes_compact_cleaned = Tail(WorkNotesTag)
    /\ callResult.work_notes_compact_cleaned_further = Tail(WorkNotesTag)

\* C10 as the specification states it: called with records none of which has a
\* resolved_at, save_to_text raises nothing and writes to unknown.txt.
C10_UnknownFallback ==
    (entry = "save_to_text" /\ records # <<>> /\ ~HasResolved(records)) =>
        /\ raised = "none"
        /\ pc \in {"save_open", "save_write", "done"} => outName = Unknown \o TxtSuffix

====
